---- MODULE Spec2Model ----
(***************************************************************************)
(* WallpaperBot: the fetch pipeline (cli.py), the adapters, the            *)
(* deduplication predicate, the suitability scoring and the persistence    *)
(* layer, as state machines.                                               *)
(*                                                                         *)
(*   Spec      one run of `fetch` (cli.py fetch / runner)                  *)
(*   FairSpec  the same run, with the scheduling of the event loop         *)
(*   SuitSpec  evaluate_suitability applied to bounded inputs              *)
(*   DupSpec   is_duplicate applied to bounded inputs                      *)
(*   StubSpec  DisallowedAdapter.discover / resolve on bounded inputs      *)
(*   DbSpec    sequences of Database.record_download calls                 *)
(***************************************************************************)
EXTENDS Integers, Sequences, FiniteSets, TLC

VARIABLES
    args,             \* the options of the fetch command and the loaded configuration
    pc,               \* position of the fetch command
    adapters,         \* list built by build_adapters
    ai,               \* index of the adapter the runner is at (for adapter in adapters)
    pages,            \* the page tasks of UnsplashAdapter.discover: page -> task
    candidates,       \* the list discover returned for the current adapter
    ci,               \* index of the candidate the runner is at (for cand in candidates)
    images,           \* the rows of table images, in insertion order
    db_opened,        \* Database(cfg.database_path) has been constructed
    existing_hashes,  \* the in-run hash set of fetch
    downloaded,       \* the list of DownloadInfo of fetch
    files,            \* image files on disk: path -> content hash of the bytes written
    sidecars,         \* paths of the .json sidecar files on disk
    http_log,         \* candidates whose direct URL was requested (client.get)
    outcome,          \* what the runner last did with a candidate: "unsupported", "dry_run",
                      \* "no_url", "duplicate", "reject", "failed" (an exception), "saved"
    start_hashes,     \* sha256 of the rows stored when the run started
    exit_code,        \* exit status of the command, -1 while it has not exited
    fn_in,            \* input of the function under check (SuitSpec, DupSpec, StubSpec, DbSpec)
    fn_out            \* its result

run_rest == <<args, adapters, ai, pages, candidates, ci, db_opened,
              existing_hashes, downloaded, files, sidecars, http_log, outcome,
              start_hashes, exit_code>>
run_vars == <<args, pc, adapters, ai, pages, candidates, ci, db_opened,
              existing_hashes, downloaded, files, sidecars, http_log, outcome,
              start_hashes, exit_code>>
vars == <<args, pc, adapters, ai, pages, candidates, ci, images, db_opened,
          existing_hashes, downloaded, files, sidecars, http_log, outcome,
          start_hashes, exit_code, fn_in, fn_out>>

----------------------------------------------------------------------------
(* Python values *)

\* Python's None
None == "None"

\* bool(x) of an Optional[str]: None and the empty string are falsy
Truthy(x) == x # None /\ x # ""

Abs(x) == IF x < 0 THEN -x ELSE x

RECURSIVE Concat(_)
\* combined.extend(res) for res in results
Concat(lists) ==
    IF lists = <<>> THEN <<>> ELSE Head(lists) \o Concat(Tail(lists))

----------------------------------------------------------------------------
(* image_ops.py *)

\* width / height, kept as an exact fraction
aspect_ratio(width, height) == [num |-> width, den |-> height]

\* abs(value - target) <= target * tolerance, for fractions with positive
\* denominators: both sides multiplied by value.den * target.den * tolerance.den
within_tolerance(value, target, tolerance) ==
    Abs(value.num * target.den - target.num * value.den) * tolerance.den
        <= target.num * tolerance.num * value.den

SuitabilityResult(category, score, reason) ==
    [category |-> category, score |-> score, reason |-> reason]

\* the perfect and croppable tests in the opposite order
evaluate_suitability_crop_first(img_size, target_size, tolerance, allow_crop, allow_upscale) ==
    LET iw == img_size[1]
        ih == img_size[2]
        tw == target_size[1]
        th == target_size[2]
    IN  IF iw <= 0 \/ ih <= 0
        THEN SuitabilityResult("reject", "0.0", "Invalid dimensions")
        ELSE LET image_ar == aspect_ratio(iw, ih)
                 target_ar == aspect_ratio(tw, th)
             IN  IF iw >= tw /\ ih >= th /\ allow_crop
                 THEN SuitabilityResult("croppable", "0.8",
                                        "Larger than target; center-crop possible")
                 ELSE IF iw >= tw /\ ih >= th
                         /\ within_tolerance(image_ar, target_ar, tolerance)
                 THEN SuitabilityResult("perfect", "1.0", "Matches target within tolerance")
                 ELSE IF allow_upscale /\ within_tolerance(image_ar, target_ar, tolerance)
                 THEN SuitabilityResult("upscalable", "0.4",
                                        "Below target but aspect ratio matches")
                 ELSE SuitabilityResult("reject", "0.0",
                                        "Insufficient resolution or mismatched ratio")

\* scores are the float literals of the source, kept as their text
evaluate_suitability(img_size, target_size, tolerance, allow_crop, allow_upscale) ==
    LET iw == img_size[1]
        ih == img_size[2]
        tw == target_size[1]
        th == target_size[2]
    IN  IF iw <= 0 \/ ih <= 0
        THEN SuitabilityResult("reject", "0.0", "Invalid dimensions")
        ELSE LET image_ar == aspect_ratio(iw, ih)
                 target_ar == aspect_ratio(tw, th)
             IN  IF iw >= tw /\ ih >= th
                    /\ within_tolerance(image_ar, target_ar, tolerance)
                 THEN SuitabilityResult("perfect", "1.0", "Matches target within tolerance")
                 ELSE IF iw >= tw /\ ih >= th /\ allow_crop
                 THEN SuitabilityResult("croppable", "0.8",
                                        "Larger than target; center-crop possible")
                 ELSE IF allow_upscale /\ within_tolerance(image_ar, target_ar, tolerance)
                 THEN SuitabilityResult("upscalable", "0.4",
                                        "Below target but aspect ratio matches")
                 ELSE SuitabilityResult("reject", "0.0",
                                        "Insufficient resolution or mismatched ratio")

----------------------------------------------------------------------------
(* dedup.py *)

is_duplicate_sha_only(hashes, sha256, phash) == sha256 \in hashes

is_duplicate(hashes, sha256, phash) ==
    IF sha256 \in hashes
    THEN TRUE
    ELSE phash # None /\ phash \in hashes

----------------------------------------------------------------------------
(* models.py *)

\* Candidate: the fields the pipeline reads (author, license, width, height and
\* tags are carried through untouched)
Candidate(id, source, title, source_page_url, direct_url, unsupported_reason) ==
    [id |-> id, source |-> source, title |-> title,
     source_page_url |-> source_page_url, direct_url |-> direct_url,
     unsupported_reason |-> unsupported_reason]

DownloadInfo(candidate, file_path, sha256, phash, width, height, suitability, suitability_reason) ==
    [candidate |-> candidate, file_path |-> file_path, sha256 |-> sha256,
     phash |-> phash, width |-> width, height |-> height,
     suitability |-> suitability, suitability_reason |-> suitability_reason]

----------------------------------------------------------------------------
(* adapters/base.py, adapters/stub_sources.py *)

DisallowedAdapter(name, homepage, reason) ==
    [kind |-> "stub", name |-> name, homepage |-> homepage, reason |-> reason]

\* SourceAdapter.note_unsupported: one synthetic candidate, direct_url left at
\* its default None
note_unsupported(adapter, reason) ==
    << Candidate("unsupported-" \o adapter.name, adapter.name,
                 adapter.name \o " unsupported", "https://example.com",
                 None, reason) >>

\* a stub that reports nothing when robots.txt allows the homepage
DisallowedDiscover_silent_when_allowed(adapter, query, page_limit, allowed) ==
    IF allowed
    THEN <<>>
    ELSE << Candidate(adapter.name \o "-unsupported", adapter.name,
                      adapter.name \o " unsupported", adapter.homepage,
                      None, adapter.reason) >>

\* a stub that hands its homepage on as the direct URL
DisallowedDiscover_with_url(adapter, query, page_limit, allowed) ==
    << Candidate(adapter.name \o "-unsupported", adapter.name,
                 adapter.name \o " unsupported", adapter.homepage,
                 adapter.homepage, adapter.reason) >>

\* DisallowedAdapter.discover; `allowed` is what can_fetch(self.homepage) returned
DisallowedDiscover(adapter, query, page_limit, allowed) ==
    LET reason == IF ~allowed THEN adapter.reason ELSE adapter.reason
    IN  << Candidate(adapter.name \o "-unsupported", adapter.name,
                     adapter.name \o " unsupported", adapter.homepage,
                     None, reason) >>

\* DisallowedAdapter.resolve
DisallowedResolve(adapter, candidate) == candidate

build_default_stub_adapters ==
    << DisallowedAdapter("ultrawidewallpapers", "https://ultrawidewallpapers.net",
           "Terms restrict automated tools/bots; manual downloads required"),
       DisallowedAdapter("4kwallpapers", "https://4kwallpapers.com",
           "ToS prohibits automated access and hotlinking"),
       DisallowedAdapter("wallpapers.com", "https://wallpapers.com",
           "Site uses aggressive anti-bot and fair-use limits; automation skipped"),
       DisallowedAdapter("wallpapersafari", "https://wallpapersafari.com",
           "ToS forbids automated scripts; only human browsing allowed"),
       DisallowedAdapter("wallpaperfusion", "https://www.wallpaperfusion.com",
           "Requires account and ToS discourages scraping; use apps instead"),
       DisallowedAdapter("wallpaperswide", "https://wallpaperswide.com",
           "ToS blocks automated downloads/hotlinking"),
       DisallowedAdapter("triplemonitorbackgrounds", "https://triplemonitorbackgrounds.com",
           "Community site without API; scraping would violate fair use") >>

----------------------------------------------------------------------------
(* db.py *)

\* the columns of table images the commands read (id, author, license,
\* file_size and downloaded_at are stored and never compared)
Row(info, query) ==
    [source |-> info.candidate.source,
     source_page_url |-> info.candidate.source_page_url,
     direct_url |-> info.candidate.direct_url,
     title |-> info.candidate.title,
     width |-> info.width, height |-> info.height,
     sha256 |-> info.sha256, phash |-> info.phash,
     file_path |-> info.file_path,
     suitability |-> info.suitability,
     suitability_reason |-> info.suitability_reason,
     query |-> query]

\* SCHEMA: the NOT NULL columns
NotNullOk(row) ==
    /\ row.source # None
    /\ row.source_page_url # None
    /\ row.sha256 # None
    /\ row.file_path # None

\* SCHEMA: sha256 ... UNIQUE
UniqueOk(rows, row) == \A i \in 1..Len(rows) : rows[i].sha256 # row.sha256

\* INSERT OR REPLACE: the stored row gives way to the new one
record_download_replace(rows, info, query) ==
    LET row == Row(info, query)
        kept == SelectSeq(rows, LAMBDA r : r.sha256 # row.sha256)
    IN  IF NotNullOk(row)
        THEN [rows |-> Append(kept, row), raised |-> None]
        ELSE [rows |-> rows, raised |-> "IntegrityError"]

\* a plain INSERT: a constraint violation raises
record_download_plain(rows, info, query) ==
    LET row == Row(info, query)
    IN  IF NotNullOk(row) /\ UniqueOk(rows, row)
        THEN [rows |-> Append(rows, row), raised |-> None]
        ELSE [rows |-> rows, raised |-> "IntegrityError"]

\* Database.record_download: INSERT OR IGNORE skips a row that violates a
\* UNIQUE or NOT NULL constraint, and raises nothing for it
record_download(rows, info, query) ==
    LET row == Row(info, query)
    IN  IF NotNullOk(row) /\ UniqueOk(rows, row)
        THEN [rows |-> Append(rows, row), raised |-> None]
        ELSE [rows |-> rows, raised |-> None]

\* Database.existing_hashes: every sha256 and every non-empty phash
db_existing_hashes(rows) ==
    {rows[i].sha256 : i \in {k \in 1..Len(rows) : Truthy(rows[k].sha256)}}
        \cup {rows[i].phash : i \in {k \in 1..Len(rows) : Truthy(rows[k].phash)}}

\* SELECT sha256 FROM images
RowHashes(rows) == {rows[i].sha256 : i \in 1..Len(rows)}

\* Database.count
db_count(rows) == Len(rows)

----------------------------------------------------------------------------
(* Bounds and input sets of the function specifications *)

MaxDim == 4
MaxCalls == 3
MaxPages == 2

Dims == -1..MaxDim
PosDims == 1..MaxDim

\* tolerance fractions: negative, zero, the default 0.1, and 0.5
Tolerances == {[num |-> -1, den |-> 10], [num |-> 0, den |-> 1],
               [num |-> 1, den |-> 10], [num |-> 1, den |-> 2]}

HashPool == {"sha-a", "sha-b", "ph-p", "ph-q"}

Queries == {"mountain", ""}

\* the seven default stubs, and one configured with an empty reason
StubConfigs ==
    {build_default_stub_adapters[i] : i \in 1..Len(build_default_stub_adapters)}
        \cup {DisallowedAdapter("custom", "https://custom.example", "")}

\* the fetch command is not running
RunIdle ==
    /\ args = None /\ adapters = <<>> /\ ai = 0
    /\ pages = <<>> /\ candidates = <<>> /\ ci = 0 /\ db_opened = FALSE
    /\ existing_hashes = {} /\ downloaded = <<>> /\ files = <<>>
    /\ sidecars = {} /\ http_log = {} /\ outcome = None
    /\ start_hashes = {} /\ exit_code = -1

----------------------------------------------------------------------------
(* SuitSpec: evaluate_suitability on every bounded input *)

SuitInit ==
    /\ RunIdle /\ images = <<>>
    /\ fn_in \in [img_size : Dims \X Dims, target_size : PosDims \X PosDims,
                  tolerance : Tolerances, allow_crop : BOOLEAN,
                  allow_upscale : BOOLEAN]
    /\ fn_out = SuitabilityResult(None, None, None)
    /\ pc = "ready"

Evaluate ==
    /\ pc = "ready"
    /\ pc' = "returned"
    /\ fn_out' = evaluate_suitability(fn_in.img_size, fn_in.target_size,
                                      fn_in.tolerance, fn_in.allow_crop,
                                      fn_in.allow_upscale)
    /\ UNCHANGED <<run_rest, images, fn_in>>

SuitNext == Evaluate

SuitSpec == SuitInit /\ [][SuitNext]_vars

----------------------------------------------------------------------------
(* DupSpec: is_duplicate on every bounded input *)

DupInit ==
    /\ RunIdle /\ images = <<>>
    /\ fn_in \in [hashes : SUBSET HashPool, sha256 : HashPool,
                  phash : HashPool \cup {None}]
    /\ fn_out = [result |-> FALSE, given |-> {}]
    /\ pc = "ready"

\* the call; the set object passed in is the one in fn_in, read and not written
CallIsDuplicate ==
    /\ pc = "ready"
    /\ pc' = "returned"
    /\ fn_out' = [result |-> is_duplicate(fn_in.hashes, fn_in.sha256, fn_in.phash),
                  given |-> fn_in.hashes]
    /\ UNCHANGED <<run_rest, images, fn_in>>

DupNext == CallIsDuplicate

DupSpec == DupInit /\ [][DupNext]_vars

----------------------------------------------------------------------------
(* StubSpec: a stub adapter's discover and resolve *)

StubInit ==
    /\ RunIdle /\ images = <<>>
    /\ fn_in \in [adapter : StubConfigs, query : Queries, page_limit : 0..MaxPages,
                  allowed : BOOLEAN]
    /\ fn_out = [discovered |-> <<>>, resolved |-> <<>>]
    /\ pc = "ready"

StubDiscover ==
    /\ pc = "ready"
    /\ pc' = "discovered"
    /\ fn_out' = [fn_out EXCEPT !.discovered =
                     DisallowedDiscover(fn_in.adapter, fn_in.query,
                                        fn_in.page_limit, fn_in.allowed)]
    /\ UNCHANGED <<run_rest, images, fn_in>>

\* resolve, applied to what discover returned or to a note_unsupported candidate
StubResolve ==
    /\ pc = "discovered"
    /\ pc' = "resolved"
    /\ \E c \in {fn_out.discovered[i] : i \in 1..Len(fn_out.discovered)}
               \cup {note_unsupported(fn_in.adapter, fn_in.adapter.reason)[1]} :
          fn_out' = [fn_out EXCEPT !.resolved =
                        << [given |-> c, result |-> DisallowedResolve(fn_in.adapter, c)] >>]
    /\ UNCHANGED <<run_rest, images, fn_in>>

StubNext == StubDiscover \/ StubResolve

StubSpec == StubInit /\ [][StubNext]_vars

----------------------------------------------------------------------------
(* DbSpec: any sequence of record_download calls on an empty table *)

\* DownloadInfo values handed to record_download
DbInfos ==
    {DownloadInfo(Candidate(id, "unsplash", "unsplash", spu, "u-" \o id, None),
                  <<"unsplash", id>>, sha, ph, 5760, 1080, "perfect",
                  "Matches target within tolerance") :
        id \in {"i1", "i2"}, spu \in {"https://unsplash.com", None},
        sha \in {"sha-a", "sha-b"}, ph \in {"ph-p", None}}

DbInit ==
    /\ RunIdle /\ images = <<>>
    /\ fn_in = [calls |-> 0, info |-> <<>>, before |-> <<>>]
    /\ fn_out = None
    /\ pc = "ready"

\* one call; fn_in keeps the argument and the table as it was before the call
DbRecord ==
    /\ fn_in.calls < MaxCalls
    /\ \E info \in DbInfos, query \in Queries :
          LET r == record_download(images, info, query)
          IN  /\ images' = r.rows
              /\ fn_out' = r.raised
              /\ fn_in' = [calls |-> fn_in.calls + 1, info |-> <<info>>, before |-> images]
    /\ pc' = "returned"
    /\ UNCHANGED run_rest

DbNext == DbRecord

DbSpec == DbInit /\ [][DbNext]_vars

----------------------------------------------------------------------------
(* config.py: the configuration fetch runs with *)

\* Config(): the field defaults
DEFAULT_CONFIG ==
    [monitor_count |-> 3, monitor_width |-> 1920, monitor_height |-> 1080,
     tolerance |-> [num |-> 1, den |-> 10], allow_crop |-> TRUE,
     allow_upscale |-> FALSE, page_limit |-> 3,
     output_dir |-> "wallpaper-library",
     database_path |-> "wallpaper-library/wallpaperbot.db",
     rate_limit_rps |-> 1, concurrency |-> 4,
     unsplash_access_key |-> None, allow_playwright |-> FALSE]

\* Config.target_resolution
target_resolution(cfg) == <<cfg.monitor_width * cfg.monitor_count, cfg.monitor_height>>

\* Path(text): the empty text is the current directory, a trailing slash is
\* dropped
Path(text) ==
    CASE text = "" -> "."
      [] text = "pics/" -> "pics"
      [] text = "from-env/" -> "from-env"
      [] OTHER -> text

\* the fields of type Path
PathFields == {"output_dir", "database_path"}

\* Config(**data): the fields named in data, validated to their types, and
\* the defaults for the rest
Config(data) ==
    [f \in DOMAIN DEFAULT_CONFIG |->
        IF f \in DOMAIN data
        THEN IF f \in PathFields THEN Path(data[f]) ELSE data[f]
        ELSE DEFAULT_CONFIG[f]]

\* the environment variables load_config reads, and the field each one sets
EnvField ==
    [UNSPLASH_ACCESS_KEY |-> "unsplash_access_key",
     WALLPAPERBOT_OUTPUT_DIR |-> "output_dir",
     WALLPAPERBOT_DB_PATH |-> "database_path"]

\* the overrides dict load_config builds from the environment
EnvOverrides(env) ==
    [f \in {EnvField[v] : v \in DOMAIN env \cap DOMAIN EnvField} |->
        LET v == CHOOSE v \in DOMAIN env \cap DOMAIN EnvField : EnvField[v] = f
        IN  IF f \in PathFields THEN Path(env[v]) ELSE env[v]]

\* the environment also overrides what the file says
load_config_env_always(file, env) ==
    LET data == IF file # <<>> THEN file[1] ELSE EnvOverrides(env)
        over == EnvOverrides(env)
    IN  Config([f \in DOMAIN data \cup DOMAIN over |->
                   IF f \in DOMAIN over THEN over[f] ELSE data[f]])

\* load_config(path): file is <<>> when nothing exists at the resolved path,
\* else <<data>> with the mapping the YAML text holds ({} for an empty file)
load_config(file, env) ==
    IF file # <<>> THEN Config(file[1]) ELSE Config(EnvOverrides(env))

----------------------------------------------------------------------------
(* ConfigSpec: load_config on every bounded file and environment *)

\* keys a configuration file may set, and two texts for each
FileKeys == {"monitor_count", "monitor_width", "monitor_height",
             "unsplash_access_key", "output_dir", "database_path"}

FileValues ==
    {[monitor_count |-> 3, monitor_width |-> 2560, monitor_height |-> 1440,
      unsplash_access_key |-> "abc", output_dir |-> "pics/",
      database_path |-> "pics/w.db"],
     [monitor_count |-> 1, monitor_width |-> 800, monitor_height |-> 600,
      unsplash_access_key |-> "", output_dir |-> "",
      database_path |-> "w.db"]}

\* what can be at the resolved path: nothing, or a file of some of the keys
ConfigFiles ==
    {<<>>} \cup {<< [k \in keys |-> values[k]] >> :
                    keys \in SUBSET FileKeys, values \in FileValues}

\* the environment: each of the three variables unset, empty or set
Environments ==
    UNION {[vars_set -> {"", "from-env/"}] : vars_set \in SUBSET DOMAIN EnvField}

ConfigInit ==
    /\ RunIdle /\ images = <<>>
    /\ fn_in \in [file : ConfigFiles, env : Environments]
    /\ fn_out = [cfg |-> DEFAULT_CONFIG, target_resolution |-> <<0, 0>>]
    /\ pc = "ready"

LoadConfig ==
    /\ pc = "ready"
    /\ pc' = "returned"
    /\ LET cfg == load_config(fn_in.file, fn_in.env)
       IN  fn_out' = [cfg |-> cfg, target_resolution |-> target_resolution(cfg)]
    /\ UNCHANGED <<run_rest, images, fn_in>>

ConfigNext == LoadConfig

ConfigSpec == ConfigInit /\ [][ConfigNext]_vars

----------------------------------------------------------------------------
(* The world a fetch run meets: the search API and the image hosts *)

MaxLimit == 2

\* stop_after_attempt(3)
MaxAttempts == 3

\* items of the search API, as _fetch_page maps them: c2's JSON has a null
\* links.html, c3's has no urls.raw
c1 == Candidate("i1", "unsplash", "mountain", "https://unsplash.com/photos/i1", "u1", None)
c2 == Candidate("i2", "unsplash", "unsplash", None, "u2", None)
c3 == Candidate("i3", "unsplash", "lake", "https://unsplash.com", None, None)

\* what page p of the search holds: its items (c1 is listed on every page), or
\* nothing when the search has fewer pages
PageResults(p) == {<<>>, IF p % 2 = 1 THEN <<c1, c2>> ELSE <<c3, c1>>}

\* bytes an image host can answer with: A suits the target, B is another
\* encoding of the same picture (same perceptual hash) with another ratio,
\* C is too small, X is no image
imgA == [sha256 |-> "sha-a", phash |-> "ph-p", size |-> <<5760, 1080>>, decodable |-> TRUE]
imgB == [sha256 |-> "sha-b", phash |-> "ph-p", size |-> <<7680, 2160>>, decodable |-> TRUE]
imgC == [sha256 |-> "sha-c", phash |-> "ph-q", size |-> <<1000, 800>>, decodable |-> TRUE]
imgX == [sha256 |-> "sha-x", phash |-> None, size |-> <<0, 0>>, decodable |-> FALSE]

\* a response of an image host: its status passes raise_for_status or not
Responses ==
    {[ok |-> TRUE, content |-> img] : img \in {imgA, imgB, imgC, imgX}}
        \cup {[ok |-> FALSE, content |-> imgX]}

\* the exceptions one candidate can end in
ExceptionKinds == {"http_error", "decode_error", "file_error", "phash_error",
                   "meta_error", "db_error"}

\* faults the environment can inject into one download: at most one per call
Faults == {None, "file_error", "phash_error", "meta_error", "db_error"}

\* the responses a request for this candidate can meet: none is awaited when
\* the candidate has no direct URL
ResponsesTo(candidate) ==
    IF Truthy(candidate.direct_url) THEN Responses ELSE {[ok |-> FALSE, content |-> imgX]}

\* a fault strikes after the bytes have arrived: a failed response meets none
FaultsAfter(resp) == IF resp.ok /\ resp.content.decodable THEN Faults ELSE {None}

\* a library left by an earlier run: empty, or holding image A
OldInfo ==
    DownloadInfo(c1, <<"unsplash", <<"i1", "mountain">>>>, "sha-a", "ph-p",
                 5760, 1080, "perfect", "Matches target within tolerance")

Libraries ==
    {[images |-> <<>>, files |-> <<>>, sidecars |-> {}],
     [images |-> <<Row(OldInfo, "mountain")>>,
      files |-> [f \in {OldInfo.file_path} |-> "sha-a"],
      sidecars |-> {OldInfo.file_path}]}

----------------------------------------------------------------------------
(* cli.py *)

UnsplashAdapter == [kind |-> "unsplash", name |-> "unsplash"]

\* stubs are added whenever the live adapter is not
build_adapters_stubs_as_fallback(unsplash_access_key, source) ==
    LET live == IF source \in {None, "unsplash"} /\ Truthy(unsplash_access_key)
                THEN <<UnsplashAdapter>> ELSE <<>>
    IN  live \o (IF source = None \/ live = <<>>
                 THEN build_default_stub_adapters ELSE <<>>)

\* build_adapters(config, source)
build_adapters(unsplash_access_key, source) ==
    LET live == IF source \in {None, "unsplash"} /\ Truthy(unsplash_access_key)
                THEN <<UnsplashAdapter>> ELSE <<>>
    IN  live \o (IF source = None THEN build_default_stub_adapters ELSE <<>>)

\* candidate_filename; the title keeps its text, blanks aside
candidate_filename(candidate) ==
    <<candidate.id, IF candidate.title # "" THEN candidate.title ELSE candidate.id>>

\* output_dir / candidate.source / candidate_filename(candidate)
FilePath(candidate) == <<candidate.source, candidate_filename(candidate)>>

\* existing_hashes.add(sha256); if phash_value: existing_hashes.add(phash_value)
AddHashes_none(hashes, sha256, phash) == hashes

AddHashes(hashes, sha256, phash) ==
    (hashes \cup {sha256}) \cup (IF Truthy(phash) THEN {phash} ELSE {})

\* if len(downloaded) >= limit: return
LimitReached(n, limit) == n >= limit

\* if dry_run: ... continue
DryRunSkip_never(dry_run) == FALSE

DryRunSkip(dry_run) == dry_run

\* except Exception: every error of ExceptionKinds is an Exception
CaughtByRunner_http_only(exc) == exc = "http_error"

CaughtByRunner(exc) == exc \in ExceptionKinds

\* stop=stop_after_attempt(3)
StopAfterAttempt_one_more(attempts) == attempts > MaxAttempts

StopAfterAttempt(attempts) == attempts >= MaxAttempts

\* if suitability.category == "reject": return None
RejectReturnsNone_never(suitability) == FALSE

RejectReturnsNone(suitability) == suitability.category = "reject"

\* function update: file_path.write_bytes(data)
WriteFile(fs, path, sha256) ==
    [f \in DOMAIN fs \cup {path} |-> IF f = path THEN sha256 ELSE fs[f]]

\* download_candidate(client, candidate, cfg, output_dir, existing_hashes) on
\* the response `resp` of the image host with fault `fault`
\* injected: what it returns (info, <<>> for None), the exception it raises,
\* and the hash set, files and sidecars it leaves
download_candidate(candidate, resp, fault, hashes, fs, metas) ==
    LET nothing(tag, exc) ==
            [info |-> <<>>, raised |-> exc, tag |-> tag, requested |-> tag # "no_url",
             hashes |-> hashes, files |-> fs, sidecars |-> metas]
        path == FilePath(candidate)
        data == resp.content
    IN  IF ~Truthy(candidate.direct_url) THEN nothing("no_url", None)
        ELSE IF ~resp.ok THEN nothing("http_error", "http_error")
        ELSE IF is_duplicate(hashes, data.sha256, None) THEN nothing("duplicate", None)
        ELSE IF ~data.decodable THEN nothing("decode_error", "decode_error")
        ELSE LET suitability ==
                     evaluate_suitability(data.size, target_resolution(DEFAULT_CONFIG),
                                          DEFAULT_CONFIG.tolerance,
                                          DEFAULT_CONFIG.allow_crop,
                                          DEFAULT_CONFIG.allow_upscale)
                 info == DownloadInfo(candidate, path, data.sha256, data.phash,
                                      data.size[1], data.size[2],
                                      suitability.category, suitability.reason)
                 written == WriteFile(fs, path, data.sha256)
             IN  IF RejectReturnsNone(suitability) THEN nothing("reject", None)
                 ELSE IF fault = "file_error" THEN nothing("file_error", "file_error")
                 ELSE IF fault = "phash_error"
                 THEN [nothing("phash_error", "phash_error") EXCEPT !.files = written]
                 ELSE IF fault = "meta_error"
                 THEN [nothing("meta_error", "meta_error") EXCEPT !.files = written]
                 ELSE [info |-> <<info>>, raised |-> None, tag |-> "info",
                       requested |-> TRUE,
                       hashes |-> AddHashes(hashes, data.sha256, data.phash),
                       files |-> written, sidecars |-> metas \cup {path}]

----------------------------------------------------------------------------
(* Spec: one run of fetch *)

Init ==
    /\ args \in [source : {None, "unsplash", "4kwallpapers"},
                 unsplash_access_key : {None, "", "key"},
                 limit : 0..MaxLimit, dry_run : BOOLEAN,
                 page_limit : 0..MaxPages, query : {"mountain"}]
    /\ \E lib \in Libraries :
          /\ images = lib.images
          /\ files = lib.files
          /\ sidecars = lib.sidecars
    /\ pc = "build_adapters"
    /\ adapters = <<>> /\ ai = 0 /\ pages = <<>> /\ candidates = <<>> /\ ci = 0
    /\ db_opened = FALSE /\ existing_hashes = {} /\ downloaded = <<>>
    /\ http_log = {} /\ outcome = None /\ start_hashes = {} /\ exit_code = -1
    /\ fn_in = None /\ fn_out = None

\* fetch, from build_adapters to the start of runner
BuildAdapters ==
    /\ pc = "build_adapters"
    /\ adapters' = build_adapters(args.unsplash_access_key, args.source)
    /\ IF adapters' = <<>>
       THEN /\ pc' = "exit"
            /\ exit_code' = 1
            /\ UNCHANGED <<db_opened, existing_hashes, start_hashes, ai>>
       ELSE /\ pc' = "discover"
            /\ db_opened' = TRUE
            /\ existing_hashes' = db_existing_hashes(images)
            /\ start_hashes' = RowHashes(images)
            /\ ai' = 1
            /\ UNCHANGED exit_code
    /\ UNCHANGED <<args, pages, candidates, ci, images, downloaded, files,
                   sidecars, http_log, outcome, fn_in, fn_out>>

\* the runner's loops after a candidate: the candidate at index i of n, or
\* past the last one the next adapter's discover, or past the last adapter
\* the end of runner and the summary line of fetch
LoopTo(i, n) ==
    /\ ci' = i
    /\ IF i <= n
       THEN pc' = "candidates" /\ ai' = ai /\ exit_code' = exit_code
       ELSE IF ai < Len(adapters)
       THEN pc' = "discover" /\ ai' = ai + 1 /\ exit_code' = exit_code
       ELSE pc' = "done" /\ ai' = ai /\ exit_code' = 0

\* return from runner, then the summary line of fetch
ReturnFromRunner ==
    /\ pc' = "done" /\ ai' = ai /\ exit_code' = 0

\* candidates = await adapter.discover(...) of a stub
DiscoverStub ==
    /\ pc = "discover"
    /\ adapters[ai].kind = "stub"
    /\ \E allowed \in BOOLEAN :
          candidates' = DisallowedDiscover(adapters[ai], args.query,
                                           args.page_limit, allowed)
    /\ LoopTo(1, Len(candidates'))
    /\ UNCHANGED <<args, adapters, pages, images, db_opened, existing_hashes,
                   downloaded, files, sidecars, http_log, outcome, start_hashes,
                   fn_in, fn_out>>

\* UnsplashAdapter.discover up to the gather: one task per page
DiscoverStart ==
    /\ pc = "discover"
    /\ adapters[ai].kind = "unsplash"
    /\ pages' = [p \in 1..args.page_limit |->
                    [attempts |-> 0, status |-> "pending", result |-> <<>>,
                     finished |-> 0]]
    /\ pc' = "gather"
    /\ UNCHANGED <<args, adapters, ai, candidates, ci, images, db_opened,
                   existing_hashes, downloaded, files, sidecars, http_log,
                   outcome, start_hashes, exit_code, fn_in, fn_out>>

\* the place of a task that ends now among the tasks of the gather, in the
\* order the event loop finishes them
FinishedNext(tasks) ==
    Cardinality({q \in DOMAIN tasks : tasks[q].status # "pending"}) + 1

\* one attempt of _get for page p, and, if it succeeds, the rest of _fetch_page
PageAttempt(p) ==
    /\ pc = "gather"
    /\ pages[p].status = "pending"
    /\ \/ \E res \in PageResults(p) :
             pages' = [pages EXCEPT ![p] = [attempts |-> @.attempts + 1,
                                            status |-> "ok", result |-> res,
                                            finished |-> FinishedNext(pages)]]
       \/ pages' = [pages EXCEPT ![p] =
                       [attempts |-> @.attempts + 1,
                        status |-> IF StopAfterAttempt(@.attempts + 1)
                                   THEN "failed" ELSE "pending",
                        result |-> <<>>,
                        finished |-> IF StopAfterAttempt(@.attempts + 1)
                                     THEN FinishedNext(pages) ELSE 0]]
    /\ UNCHANGED <<args, pc, adapters, ai, candidates, ci, images, db_opened,
                   existing_hashes, downloaded, files, sidecars, http_log,
                   outcome, start_hashes, exit_code, fn_in, fn_out>>

\* the results listed as the tasks finished
gather_as_completed(tasks) ==
    [k \in DOMAIN tasks |-> tasks[CHOOSE p \in DOMAIN tasks : tasks[p].finished = k].result]

\* results = await asyncio.gather(*tasks): the results in the order of the
\* tasks passed, whichever finished first
gather(tasks) ==
    [p \in DOMAIN tasks |-> tasks[p].result]

\* asyncio.gather returns: every page task has returned its list; the tasks
\* are locals of discover and end with it
GatherReturn ==
    /\ pc = "gather"
    /\ \A p \in DOMAIN pages : pages[p].status = "ok"
    /\ candidates' = Concat(gather(pages))
    /\ pages' = <<>>
    /\ LoopTo(1, Len(candidates'))
    /\ UNCHANGED <<args, adapters, images, db_opened, existing_hashes,
                   downloaded, files, sidecars, http_log, outcome, start_hashes,
                   fn_in, fn_out>>

\* asyncio.gather raises the first exception of a page task; nothing in
\* runner or fetch catches it
GatherRaise ==
    /\ pc = "gather"
    /\ \E p \in DOMAIN pages : pages[p].status = "failed"
    /\ pc' = "aborted"
    /\ outcome' = "discover_failed"
    /\ exit_code' = 1
    /\ UNCHANGED <<args, adapters, ai, pages, candidates, ci, images, db_opened,
                   existing_hashes, downloaded, files, sidecars, http_log,
                   start_hashes, fn_in, fn_out>>

\* the body of `for cand in candidates` for candidates[ci]
ProcessCandidate ==
    /\ pc = "candidates"
    /\ ci <= Len(candidates)
    /\ LET cand == candidates[ci]
       IN  \/ /\ Truthy(cand.unsupported_reason)
              /\ outcome' = "unsupported"
              /\ LoopTo(ci + 1, Len(candidates))
              /\ UNCHANGED <<images, existing_hashes, downloaded, files,
                             sidecars, http_log>>
           \/ /\ ~Truthy(cand.unsupported_reason)
              /\ DryRunSkip(args.dry_run)
              /\ outcome' = "dry_run"
              /\ LoopTo(ci + 1, Len(candidates))
              /\ UNCHANGED <<images, existing_hashes, downloaded, files,
                             sidecars, http_log>>
           \/ /\ ~Truthy(cand.unsupported_reason)
              /\ ~DryRunSkip(args.dry_run)
              /\ \E resp \in ResponsesTo(cand) : \E fault \in FaultsAfter(resp) :
                    LET d == download_candidate(cand, resp, fault, existing_hashes,
                                                files, sidecars)
                        rec == record_download(images, d.info[1], args.query)
                        exc == IF d.raised # None THEN d.raised
                               ELSE IF d.info = <<>> THEN None
                               ELSE IF fault = "db_error" THEN "db_error"
                               ELSE rec.raised
                    IN  /\ http_log' = IF d.requested THEN http_log \cup {cand}
                                       ELSE http_log
                        /\ existing_hashes' = d.hashes
                        /\ files' = d.files
                        /\ sidecars' = d.sidecars
                        /\ IF exc # None
                           THEN /\ outcome' = "failed"
                                /\ UNCHANGED <<images, downloaded>>
                                /\ IF CaughtByRunner(exc)
                                   THEN LoopTo(ci + 1, Len(candidates))
                                   ELSE /\ pc' = "aborted"
                                        /\ exit_code' = 1
                                        /\ UNCHANGED <<ai, ci>>
                           ELSE IF d.info = <<>>
                           THEN /\ outcome' = d.tag
                                /\ UNCHANGED <<images, downloaded>>
                                /\ LoopTo(ci + 1, Len(candidates))
                           ELSE /\ images' = rec.rows
                                /\ downloaded' = Append(downloaded, d.info[1])
                                /\ outcome' = "saved"
                                /\ IF LimitReached(Len(downloaded'), args.limit)
                                   THEN ReturnFromRunner /\ UNCHANGED ci
                                   ELSE LoopTo(ci + 1, Len(candidates))
    /\ UNCHANGED <<args, adapters, pages, candidates, db_opened,
                   start_hashes, fn_in, fn_out>>

Next ==
    \/ BuildAdapters
    \/ DiscoverStub
    \/ DiscoverStart
    \/ \E p \in DOMAIN pages : PageAttempt(p)
    \/ GatherReturn
    \/ GatherRaise
    \/ ProcessCandidate

Spec == Init /\ [][Next]_vars

\* the event loop runs every task that can run, and the command runs on
FairSpec == Spec /\ WF_vars(Next)

----------------------------------------------------------------------------
(* Claims about the functions *)

\* |iw/ih - tw/th| <= (tw/th) * tolerance, for ih, th > 0 and a tolerance
\* fraction n/d with d > 0
AspectWithin(iw, ih, tw, th, tolerance) ==
    LET diff == iw * th - tw * ih
    IN  (IF diff < 0 THEN -diff ELSE diff) * tolerance.den
            <= tw * ih * tolerance.num

C9_IsDuplicate ==
    pc = "returned" =>
        /\ fn_out.result = (\/ fn_in.sha256 \in fn_in.hashes
                            \/ (fn_in.phash # None /\ fn_in.phash \in fn_in.hashes))
        /\ fn_out.given = fn_in.hashes

\* a new content hash with a known perceptual hash
C9_Witness ==
    /\ pc = "returned"
    /\ fn_out.result = TRUE
    /\ fn_in.sha256 \notin fn_in.hashes
    /\ fn_in.phash \in fn_in.hashes

\* C8: a stub's discover returns exactly one candidate, carrying the reason
\* the adapter was configured with and no direct URL, whatever the query, the
\* page limit and the robots check say; resolve returns its input.
C8_StubDiscover ==
    /\ pc \in {"discovered", "resolved"} =>
          /\ Len(fn_out.discovered) = 1
          /\ fn_out.discovered[1].unsupported_reason = fn_in.adapter.reason
          /\ fn_out.discovered[1].direct_url = None
          /\ fn_out.discovered[1].source = fn_in.adapter.name
    /\ pc = "resolved" =>
          fn_out.resolved[1].result = fn_out.resolved[1].given

\* robots.txt allows the homepage, and discover and resolve have both returned
C8_Witness ==
    /\ pc = "resolved"
    /\ fn_in.allowed
    /\ fn_in.page_limit = 0
    /\ fn_in.query = ""
    /\ Len(fn_out.discovered) = 1

\* C4: the table holds at most one row per content hash, and recording an
\* info whose content hash is already stored raises nothing and leaves the
\* table as it was.
C4_OneRowPerHash ==
    /\ \A i, j \in 1..Len(images) :
          images[i].sha256 = images[j].sha256 => i = j
    /\ (fn_in.calls > 0 /\ fn_in.info[1].sha256 \in RowHashes(fn_in.before)) =>
          /\ images = fn_in.before
          /\ fn_out = None

\* the last call re-recorded a stored hash with other fields than the stored row
C4_Witness ==
    /\ fn_in.calls > 1
    /\ fn_in.info[1].sha256 \in RowHashes(fn_in.before)
    /\ \E i \in 1..Len(images) :
          /\ images[i].sha256 = fn_in.info[1].sha256
          /\ images[i].file_path # fn_in.info[1].file_path
          /\ images[i].phash # fn_in.info[1].phash

----------------------------------------------------------------------------
(* Claims about a fetch run *)

\* C1: the number of downloads recorded in one run never exceeds --limit.
C1_LimitNeverExceeded == Len(downloaded) <= args.limit

StubAdaptersOfRun == {adapters[i] : i \in {k \in 1..Len(adapters) : adapters[k].kind = "stub"}}

\* the candidates the stubs of this run produce
UnsupportedCandidates ==
    {DisallowedDiscover(a, args.query, args.page_limit, allowed)[1] :
        a \in StubAdaptersOfRun, allowed \in BOOLEAN}

\* C2: a candidate that carries an unsupported reason is never downloaded: no
\* request is issued, no file written and no row recorded for it; and every
\* candidate of a stub adapter or of note_unsupported has no direct URL.
C2_UnsupportedNeverDownloaded ==
    /\ \A c \in http_log : c.unsupported_reason = None
    /\ \A c \in UnsupportedCandidates :
          /\ c.direct_url = None
          /\ c.unsupported_reason # None
          /\ c \notin http_log
          /\ FilePath(c) \notin DOMAIN files
          /\ FilePath(c) \notin sidecars
          /\ \A i \in 1..Len(images) : images[i].source # c.source
          /\ \A i \in 1..Len(downloaded) : downloaded[i].candidate # c
    /\ (pc = "candidates" /\ adapters[ai].kind = "stub") =>
          \A i \in 1..Len(candidates) : candidates[i] \in UnsupportedCandidates
    /\ \A a \in StubConfigs :
          note_unsupported(a, a.reason)[1].direct_url = None

\* a run that downloaded from the live source and then met every stub
C2_Witness ==
    /\ pc = "done"
    /\ outcome = "unsupported"
    /\ ai = 8
    /\ downloaded # <<>>
    /\ http_log # {}

\* C3: no two accepted downloads of a run share a content hash, none has a
\* content hash stored when the run started, every accepted hash is in the
\* in-run set before the next candidate, and nothing is accepted or written
\* for bytes whose hash is in the set.
C3_NoDuplicateDownloads ==
    /\ [](/\ \A i, j \in 1..Len(downloaded) :
               downloaded[i].sha256 = downloaded[j].sha256 => i = j
          /\ \A i \in 1..Len(downloaded) :
               /\ downloaded[i].sha256 \notin start_hashes
               /\ downloaded[i].sha256 \in existing_hashes)
    /\ [][/\ Len(downloaded') > Len(downloaded) =>
               downloaded'[Len(downloaded')].sha256 \notin existing_hashes
          /\ (pc = "candidates" /\ outcome' = "duplicate") =>
               /\ files' = files /\ sidecars' = sidecars
               /\ images' = images /\ downloaded' = downloaded
          /\ pc = "candidates" =>
               \A f \in DOMAIN files' :
                  (f \notin DOMAIN files \/ files'[f] # files[f]) =>
                       files'[f] \notin existing_hashes]_vars

\* a second copy of bytes accepted earlier in the same run is dropped
C3_Witness ==
    /\ outcome = "duplicate"
    /\ start_hashes = {}
    /\ Len(downloaded) = 1
    /\ pc = "candidates"

\* C6: an error raised for one candidate is caught for that candidate: the
\* runner goes on to the next candidate, the next adapter or the summary, the
\* command is aborted by nothing but a failed discovery, and after such an
\* error the command still ends with its summary.
C6_ErrorsDoNotAbort ==
    /\ [][(pc = "candidates" /\ outcome' = "failed") =>
            /\ ci' = ci + 1
            /\ candidates' = candidates
            /\ IF ci + 1 <= Len(candidates)
               THEN pc' = "candidates" /\ ai' = ai
               ELSE IF ai < Len(adapters)
               THEN pc' = "discover" /\ ai' = ai + 1
               ELSE pc' = "done" /\ exit_code' = 0]_vars
    /\ [](pc = "aborted" => outcome = "discover_failed")
    /\ (outcome = "failed") ~> (pc = "done" /\ exit_code = 0)

\* a file left without sidecar by a failed candidate, and the run went on
\* through every stub to its summary
C6_Witness ==
    /\ pc = "done"
    /\ exit_code = 0
    /\ ai = 8
    /\ \E f \in DOMAIN files : f \notin sidecars

\* C7: the adapter set holds the live adapter exactly when the source filter
\* is absent or "unsplash" and a key is configured, then the seven stubs
\* exactly when no filter is given; a missing key raises nothing; fetch exits
\* with status 1 before opening the database or requesting anything exactly
\* when the set is empty.
C7_AdapterSet ==
    pc # "build_adapters" =>
        LET live == {i \in 1..Len(adapters) : adapters[i].kind = "unsplash"}
            stubs == SelectSeq(adapters, LAMBDA a : a.kind = "stub")
            wanted == /\ args.source \in {None, "unsplash"}
                      /\ args.unsplash_access_key \notin {None, ""}
        IN  /\ live = (IF wanted THEN {1} ELSE {})
            /\ stubs = (IF args.source = None THEN build_default_stub_adapters ELSE <<>>)
            /\ Len(stubs) \in {0, 7}
            /\ Len(adapters) = Cardinality(live) + Len(stubs)
            /\ ~wanted => pc # "aborted"
            /\ (/\ exit_code = 1 /\ ~db_opened /\ http_log = {}
                /\ pages = <<>> /\ pc = "exit") <=> (adapters = <<>>)

\* --source unsplash without a usable key: nothing to run, exit status 1
C7_Witness ==
    /\ pc = "exit"
    /\ exit_code = 1
    /\ args.source = "unsplash"
    /\ args.unsplash_access_key = ""

\* C10: a page request is attempted at most 3 times and not again after its
\* success; discover returns only when every page succeeded, and when a page
\* has failed 3 times the failure leaves discover without any candidate.
C10_RetryThenPropagate ==
    /\ [](\A p \in DOMAIN pages :
             /\ pages[p].attempts <= 3
             /\ pages[p].status = "ok" => pages[p].attempts >= 1
             /\ pages[p].attempts = 3 => pages[p].status # "pending")
    /\ [][/\ \A p \in DOMAIN pages \cap DOMAIN pages' :
               pages[p].status # "pending" => pages'[p] = pages[p]
          /\ (pc = "gather" /\ pc' \notin {"gather", "aborted"}) =>
               \A p \in DOMAIN pages : pages[p].status = "ok"]_vars
    /\ [](pc = "aborted" =>
             /\ \E p \in DOMAIN pages : pages[p].status = "failed"
             /\ candidates = <<>> /\ downloaded = <<>> /\ http_log = {}
             /\ Len(images) = Cardinality(start_hashes))

\* one page gave up after its third attempt while another had returned items:
\* those items are not handed on
C10_Witness ==
    /\ pc = "aborted"
    /\ \E p, q \in DOMAIN pages :
          /\ pages[p].status = "failed" /\ pages[p].attempts = 3
          /\ pages[q].status = "ok" /\ pages[q].result # <<>>

\* the number of items on the pages before page p
RECURSIVE ItemsBefore(_, _)
ItemsBefore(tasks, p) ==
    IF p <= 1 THEN 0 ELSE ItemsBefore(tasks, p - 1) + Len(tasks[p - 1].result)

\* C11: the live adapter's discover runs exactly one page task for each page
\* 1..page_limit, returns only when every one of them has returned its list,
\* and whatever order the tasks finished in, the list it returns holds the
\* items of page 1, then those of page 2, and so on, each page's items in the
\* page's own order
C11_PageOrder ==
    /\ [](pc = "gather" => DOMAIN pages = 1..args.page_limit)
    /\ [][pc = "gather" /\ pc' \notin {"gather", "aborted"}
            => /\ \A p \in DOMAIN pages : pages[p].status = "ok"
               /\ Len(candidates') = ItemsBefore(pages, args.page_limit + 1)
               /\ \A p \in DOMAIN pages : \A k \in 1..Len(pages[p].result) :
                     candidates'[ItemsBefore(pages, p) + k] = pages[p].result[k]]_vars

\* every page task has returned, page 2 before page 1, both with items
C11_Witness ==
    /\ pc = "gather"
    /\ \A p \in DOMAIN pages : pages[p].status = "ok"
    /\ \E p, q \in DOMAIN pages :
          /\ p < q /\ pages[q].finished < pages[p].finished
          /\ pages[p].result # <<>> /\ pages[q].result # <<>>
          /\ pages[p].result # pages[q].result

\* C12: a run with --dry-run requests no candidate URL, writes no image and
\* no sidecar, records no row and leaves the hash set as loaded, so the
\* database total at the end is the total at the start and the run reports
\* no download
C12_DryRunFrame ==
    /\ [](args.dry_run
            => /\ http_log = {}
               /\ downloaded = <<>>
               /\ pc = "done" => db_count(images) = Cardinality(start_hashes))
    /\ [][args.dry_run
            => /\ images' = images
               /\ files' = files
               /\ sidecars' = sidecars
               /\ db_opened => existing_hashes' = existing_hashes]_vars

\* a dry run over a library that holds an image has ended after the live
\* adapter listed candidates with URLs
C12_Witness ==
    /\ args.dry_run
    /\ pc = "done"
    /\ outcome = "dry_run"
    /\ images # <<>>
    /\ \E i \in 1..Len(candidates) : Truthy(candidates[i].direct_url)

\* C13: load_config reads the three environment variables only when nothing
\* exists at the resolved path. With a file, every field is the file's value
\* for it or the default, whatever the environment holds; without one, the
\* result is the defaults with unsplash_access_key, output_dir and
\* database_path replaced by those of the three variables that are set. In
\* both cases target_resolution is (monitor_width * monitor_count,
\* monitor_height).
C13_LoadConfig ==
    pc = "returned"
    => LET file == fn_in.file
           env == fn_in.env
           cfg == fn_out.cfg
           OfText(f, text) == IF f \in {"output_dir", "database_path"}
                              THEN Path(text) ELSE text
           VarOf(f) == CASE f = "unsplash_access_key" -> "UNSPLASH_ACCESS_KEY"
                         [] f = "output_dir" -> "WALLPAPERBOT_OUTPUT_DIR"
                         [] f = "database_path" -> "WALLPAPERBOT_DB_PATH"
                         [] OTHER -> "-"
       IN  /\ DOMAIN cfg = DOMAIN DEFAULT_CONFIG
           /\ file # <<>>
                => \A f \in DOMAIN cfg :
                      cfg[f] = IF f \in DOMAIN file[1] THEN OfText(f, file[1][f])
                               ELSE DEFAULT_CONFIG[f]
           /\ file = <<>>
                => \A f \in DOMAIN cfg :
                      cfg[f] = IF VarOf(f) \in DOMAIN env THEN OfText(f, env[VarOf(f)])
                               ELSE DEFAULT_CONFIG[f]
           /\ fn_out.target_resolution
                 = <<cfg.monitor_width * cfg.monitor_count, cfg.monitor_height>>

\* a file that sets the monitors and no key was loaded while all three
\* variables were set: the key stays unset
C13_Witness ==
    /\ pc = "returned"
    /\ fn_in.file # <<>>
    /\ DOMAIN fn_in.file[1] = {"monitor_count", "monitor_width", "monitor_height"}
    /\ DOMAIN fn_in.env = DOMAIN EnvField
    /\ fn_in.env["UNSPLASH_ACCESS_KEY"] = "from-env/"
    /\ fn_out.cfg.unsplash_access_key = None
    /\ fn_out.target_resolution = <<7680, 1440>>

\* C14: only an image whose suitability is not reject gets a DownloadInfo, a
\* file and a row: every row and every reported download is perfect,
\* croppable or upscalable, and the step that classifies a candidate's image
\* as reject writes no file and no sidecar, records no row and adds nothing
\* to the hash set (the bytes of the rejected image C are in no file and
\* none of its hashes is in the set)
C14_RejectLeavesNothing ==
    /\ [](/\ \A i \in 1..Len(images) :
                images[i].suitability \in {"perfect", "croppable", "upscalable"}
          /\ \A i \in 1..Len(downloaded) :
                downloaded[i].suitability \in {"perfect", "croppable", "upscalable"}
          /\ \A f \in DOMAIN files : files[f] # imgC.sha256
          /\ existing_hashes \cap {imgC.sha256, imgC.phash} = {})
    /\ [][pc = "candidates" /\ outcome' = "reject"
            => /\ files' = files
               /\ sidecars' = sidecars
               /\ images' = images
               /\ downloaded' = downloaded
               /\ existing_hashes' = existing_hashes]_vars

\* a candidate's image was classified reject after another was saved in the
\* same run, and the host was asked for it
C14_Witness ==
    /\ outcome = "reject"
    /\ downloaded # <<>>
    /\ ci > 1 /\ candidates[ci - 1] \in http_log

\* the perceptual hash of the image with these bytes
PhashOfContent(sha256) ==
    (CHOOSE img \in {imgA, imgB, imgC} : img.sha256 = sha256).phash

\* C15: the download pipeline drops a candidate whose image's perceptual hash
\* is already in the hash set of the run, even when its content hash is new:
\* no step writes a file whose image has a perceptual hash found in the set
\* before the step, and none records a row with such a perceptual hash
C15_PhashDuplicateDropped ==
    [][pc = "candidates"
        => /\ \A f \in DOMAIN files' :
                 (f \notin DOMAIN files \/ files'[f] # files[f])
                     => PhashOfContent(files'[f]) \notin existing_hashes
           /\ Len(images') > Len(images)
                 => images'[Len(images')].phash \notin existing_hashes]_vars

\* C16: in a run of one process every DownloadInfo handed to record_download
\* adds a row, so at the end of the run the table holds the rows it held at
\* the start plus one for each download the run reports
C16_CountAddsUp ==
    pc = "done"
    => db_count(images) = Cardinality(start_hashes) + Len(downloaded)

\* C17: a candidate that ends in an error the runner catches leaves the run
\* as a skipped candidate would: when the run has ended every image file
\* under the output directory is named by a row of the table, and every
\* content hash in the hash set is the sha256 of a row the table held at the
\* start or of a row recorded in the run
C17_ErrorLeavesNoTrace ==
    pc = "done"
    => /\ \A f \in DOMAIN files :
             \E i \in 1..Len(images) : images[i].file_path = f
       /\ \A h \in existing_hashes \cap {imgA.sha256, imgB.sha256, imgC.sha256} :
             h \in start_hashes \cup RowHashes(images)

====
